---- MODULE Spec2Model ----
(***************************************************************************)
(* Model of getting-started/src/main.rs: one run of async_main, driven by  *)
(* pollster::block_on, against a wgpu device.  The host is one sequential   *)
(* thread (pc); the device executes the submitted compute work              *)
(* asynchronously, one kernel invocation at a time, in any order.           *)
(*                                                                         *)
(* f32 values are modelled as integers: an input element is a small         *)
(* natural number v (the source builds x from integers cast to f32), and    *)
(* cos v is its value in units of 1e-4.                                     *)
(***************************************************************************)
EXTENDS Integers, Sequences, FiniteSets, TLC

\* Largest input length explored (the source hardcodes 1028 under the
\* heading USER INPUT).
MaxN == 5

\* Largest input element explored.
MaxVal == 1

\* std::mem::size_of::<f32>() and the stride(4) of the shader's array.
SizeOfF32 == 4

\* Number of leading elements printed: &result[0..5] and (0..5).
ReportLen == 5

VARIABLES
    x,            \* the host input Vec<f32>
    pc,           \* position of async_main
    adapterFut,   \* request_adapter's future: "idle", "pending", "some", "none"
    deviceFut,    \* request_device's future: "idle", "pending", "ok", "err"
    workgroups,   \* (x_workgroups, y_workgroups, z_workgroups)
    x_buffer,     \* contents of the device buffer x
    ySize,        \* size in bytes of the device buffer y
    y_buffer,     \* contents of the device buffer y, as f32 elements
    passes,       \* compute passes recorded in the encoder
    dispatches,   \* grids of the dispatches recorded in the encoder
    submissions,  \* queue.submit calls made
    pending,      \* global_invocation_id.x of the invocations not yet executed
    writes,       \* per element of y: number of kernel writes it received
    oob,          \* invocations whose index fell outside the bound arrays
    mapState,     \* y_buffer: "unmapped", "pending", "mapped", "failed"
    mapMode,      \* mode of the mapping request: "none", "Read"
    mapCount,     \* map_async calls made
    polled,       \* device.poll(Maintain::Wait) has returned
    view,         \* a BufferView (get_mapped_range) is outstanding
    result,       \* the host Vec<f32> copied out of the mapping
    copied,       \* the copy at line 117 has been made
    printed,      \* what the run wrote to standard output
    abortCause    \* "none", or which panic ended the run

vars == <<x, pc, adapterFut, deviceFut, workgroups, x_buffer, ySize, y_buffer,
          passes, dispatches, submissions, pending, writes, oob, mapState,
          mapMode, mapCount, polled, view, result, copied, printed, abortCause>>

hostInit == <<adapterFut, deviceFut>>
hostBufs == <<workgroups, x_buffer, ySize>>
hostEnc == <<passes, dispatches, submissions>>
devWork == <<y_buffer, pending, writes, oob>>
hostMap == <<mapState, mapMode, mapCount, polled, view>>
hostOut == <<result, copied, printed>>

\* cos(0), cos(1), ... in units of 1e-4 (f32::cos on the host, cos in WGSL).
CosTable == <<10000, 5403, -4161, -9900, -6536, 2837, 9602, 7539, -1455, -9111>>

Cos(v) == CosTable[v + 1]

Values == 0 .. MaxVal

Inputs == UNION {[1 .. n -> Values] : n \in 0 .. MaxN}

Zeros(n) == [i \in 1 .. n |-> 0]

\* Workgroups with the element count put on the y axis instead of the x axis.
WorkgroupsTransposed(input) == <<1, Len(input), 1>>

\* (x.len() as u32, 1, 1).  The cast is exact for every length below 2^32,
\* which covers every length the model checker's integers can represent.
Workgroups(input) == <<Len(input), 1, 1>>

\* YBufferSize without the size_of::<f32>() factor: a size in elements
\* handed to an API that takes bytes.
YBufferSizeUnscaled(input) == Len(input)

\* (x.len() * std::mem::size_of::<f32>()) as u64
YBufferSize(input) == Len(input) * SizeOfF32

\* arrayLength of a runtime-sized array<f32> with stride 4 over a whole buffer;
\* also the length bytemuck::cast_slice::<u8, f32> gives the mapped bytes.
ElemCount(bytes) == bytes \div SizeOfF32

\* global_invocation_id.x of every invocation of a dispatch with workgroup
\* size (1, 1, 1): one per workgroup along x, for each of the y * z rows.
Invocations(grid) == IF grid[2] * grid[3] = 0 THEN {} ELSE 0 .. grid[1] - 1

\* KernelValue of a kernel that copies its input element unchanged.
KernelValueIdentity(v) == v

\* y.data[gidx] = cos(x.data[gidx]) : the value stored for an input element.
KernelValue(v) == Cos(v)

Init ==
    /\ x \in Inputs
    /\ pc = "start"
    /\ adapterFut = "idle"
    /\ deviceFut = "idle"
    /\ workgroups = <<0, 0, 0>>
    /\ x_buffer = <<>>
    /\ ySize = 0
    /\ y_buffer = <<>>
    /\ passes = 0
    /\ dispatches = <<>>
    /\ submissions = 0
    /\ pending = {}
    /\ writes = <<>>
    /\ oob = 0
    /\ mapState = "unmapped"
    /\ mapMode = "none"
    /\ mapCount = 0
    /\ polled = FALSE
    /\ view = FALSE
    /\ result = <<>>
    /\ copied = FALSE
    /\ printed = <<>>
    /\ abortCause = "none"

\* A panic: the run ends, nothing after it is executed.
Panic(cause) ==
    /\ pc' = "abort"
    /\ abortCause' = cause

\* instance.request_adapter(..)
RequestAdapter ==
    /\ pc = "start"
    /\ adapterFut = "idle"
    /\ adapterFut' = "pending"
    /\ pc' = "await_adapter"
    /\ UNCHANGED <<x, deviceFut, hostBufs, hostEnc, devWork, hostMap, hostOut, abortCause>>

\* .await.expect("No GPU Found for referenced preference")
AdapterResolved(found) ==
    /\ pc = "await_adapter"
    /\ adapterFut = "pending"
    /\ adapterFut' = IF found THEN "some" ELSE "none"
    /\ IF found
         THEN pc' = "adapter_ok" /\ UNCHANGED abortCause
         ELSE Panic("adapter")
    /\ UNCHANGED <<x, deviceFut, hostBufs, hostEnc, devWork, hostMap, hostOut>>

\* adapter.request_device(..)
RequestDevice ==
    /\ pc = "adapter_ok"
    /\ deviceFut = "idle"
    /\ deviceFut' = "pending"
    /\ pc' = "await_device"
    /\ UNCHANGED <<x, adapterFut, hostBufs, hostEnc, devWork, hostMap, hostOut, abortCause>>

\* .await.expect("Could not create adapter for GPU device")
DeviceResolved(ok) ==
    /\ pc = "await_device"
    /\ deviceFut = "pending"
    /\ deviceFut' = IF ok THEN "ok" ELSE "err"
    /\ IF ok
         THEN pc' = "DeviceReady" /\ UNCHANGED abortCause
         ELSE Panic("device")
    /\ UNCHANGED <<x, adapterFut, hostBufs, hostEnc, devWork, hostMap, hostOut>>

\* The workgroup counts, create_buffer_init for x and create_buffer for y
\* (zero-initialised, not mapped at creation).
CreateBuffers ==
    /\ pc = "DeviceReady"
    /\ workgroups' = Workgroups(x)
    /\ x_buffer' = x
    /\ ySize' = YBufferSize(x)
    /\ y_buffer' = Zeros(ElemCount(YBufferSize(x)))
    /\ writes' = Zeros(ElemCount(YBufferSize(x)))
    /\ pc' = "BuffersAllocated"
    /\ UNCHANGED <<x, hostInit, hostEnc, pending, oob, hostMap, hostOut, abortCause>>

\* create_compute_pipeline and create_bind_group (x at binding 0, y at 1).
BuildPipeline ==
    /\ pc = "BuffersAllocated"
    /\ pc' = "PipelineBuilt"
    /\ UNCHANGED <<x, hostInit, hostBufs, hostEnc, devWork, hostMap, hostOut, abortCause>>

\* The encoder, its one compute pass and the dispatch recorded in it.
EncodePass ==
    /\ pc = "PipelineBuilt"
    /\ passes' = passes + 1
    /\ dispatches' = Append(dispatches, workgroups)
    /\ pc' = "Dispatched"
    /\ UNCHANGED <<x, hostInit, hostBufs, submissions, devWork, hostMap, hostOut, abortCause>>

\* queue.submit(Some(encoder.finish())): the recorded dispatches become
\* work of the device.
Submit ==
    /\ pc = "Dispatched"
    /\ submissions' = submissions + 1
    /\ pending' = UNION {Invocations(dispatches[k]) : k \in 1 .. Len(dispatches)}
    /\ pc' = "Submitted"
    /\ UNCHANGED <<x, hostInit, hostBufs, passes, dispatches, y_buffer, writes, oob,
                   hostMap, hostOut, abortCause>>

\* The device executes one invocation of the shader's main.  An access
\* outside the bound array is discarded by the device.
ShaderMain(gidx) ==
    /\ gidx \in pending
    /\ pending' = pending \ {gidx}
    /\ IF gidx + 1 \in DOMAIN y_buffer /\ gidx + 1 \in DOMAIN x_buffer
         THEN /\ y_buffer' = [y_buffer EXCEPT ![gidx + 1] = KernelValue(x_buffer[gidx + 1])]
              /\ writes' = [writes EXCEPT ![gidx + 1] = @ + 1]
              /\ UNCHANGED oob
         ELSE /\ oob' = oob + 1
              /\ UNCHANGED <<y_buffer, writes>>
    /\ UNCHANGED <<x, pc, hostInit, hostBufs, hostEnc, hostMap, hostOut, abortCause>>

\* All submitted work has completed on the device.
WorkDone == pending = {}

\* MapAsync of a program with no device.poll call: it goes straight to the
\* await of the mapping future.
MapAsyncSkipPoll ==
    /\ pc = "Submitted"
    /\ mapState = "unmapped"
    /\ mapState' = "pending"
    /\ mapMode' = "Read"
    /\ mapCount' = mapCount + 1
    /\ pc' = "await_map"
    /\ UNCHANGED <<x, hostInit, hostBufs, hostEnc, devWork, polled, view, hostOut, abortCause>>

\* y_buffer.slice(..).map_async(MapMode::Read)
MapAsync ==
    /\ pc = "Submitted"
    /\ mapState = "unmapped"
    /\ mapState' = "pending"
    /\ mapMode' = "Read"
    /\ mapCount' = mapCount + 1
    /\ pc' = "poll"
    /\ UNCHANGED <<x, hostInit, hostBufs, hostEnc, devWork, polled, view, hostOut, abortCause>>

\* Poll that returns, and resolves the pending mapping, without waiting for
\* the submitted work.
PollNoWait(granted) ==
    /\ pc = "poll"
    /\ polled' = TRUE
    /\ mapState' = IF mapState = "pending"
                     THEN (IF granted THEN "mapped" ELSE "failed")
                     ELSE mapState
    /\ pc' = "await_map"
    /\ UNCHANGED <<x, hostInit, hostBufs, hostEnc, devWork, mapMode, mapCount, view,
                   hostOut, abortCause>>

\* Poll with Maintain::Poll: it returns at once, and resolves the pending
\* mapping only when the submitted work happens to be done already.
PollNonBlocking(granted) ==
    /\ pc = "poll"
    /\ polled' = TRUE
    /\ mapState' = IF mapState = "pending" /\ pending = {}
                     THEN (IF granted THEN "mapped" ELSE "failed")
                     ELSE mapState
    /\ pc' = "await_map"
    /\ UNCHANGED <<x, hostInit, hostBufs, hostEnc, devWork, mapMode, mapCount, view,
                   hostOut, abortCause>>

\* device.poll(Maintain::Wait): blocks until the submitted work is done, then
\* resolves the pending mapping, granted or failed.
Poll(granted) ==
    /\ pc = "poll"
    /\ WorkDone
    /\ polled' = TRUE
    /\ mapState' = IF mapState = "pending"
                     THEN (IF granted THEN "mapped" ELSE "failed")
                     ELSE mapState
    /\ pc' = "await_map"
    /\ UNCHANGED <<x, hostInit, hostBufs, hostEnc, devWork, mapMode, mapCount, view,
                   hostOut, abortCause>>

\* AwaitMap that discards the mapping's Result instead of expecting it.
AwaitMapIgnoreErr ==
    /\ pc = "await_map"
    /\ mapState \in {"mapped", "failed"}
    /\ pc' = "Completed"
    /\ UNCHANGED <<x, hostInit, hostBufs, hostEnc, devWork, hostMap, hostOut, abortCause>>

\* buffer_future.await.expect("failed to run compute on gpu!")
AwaitMap ==
    /\ pc = "await_map"
    /\ mapState \in {"mapped", "failed"}
    /\ IF mapState = "mapped"
         THEN pc' = "Completed" /\ UNCHANGED abortCause
         ELSE Panic("map")
    /\ UNCHANGED <<x, hostInit, hostBufs, hostEnc, devWork, hostMap, hostOut>>

\* buffer_slice.get_mapped_range()
GetMappedRange ==
    /\ pc = "Completed"
    /\ mapState = "mapped"
    /\ view' = TRUE
    /\ pc' = "copy"
    /\ UNCHANGED <<x, hostInit, hostBufs, hostEnc, devWork, mapState, mapMode, mapCount,
                   polled, hostOut, abortCause>>

\* bytemuck::cast_slice(&data).to_vec(): the whole mapped range, ySize bytes.
CopyOut ==
    /\ pc = "copy"
    /\ result' = SubSeq(y_buffer, 1, ElemCount(ySize))
    /\ copied' = TRUE
    /\ pc' = "drop"
    /\ UNCHANGED <<x, hostInit, hostBufs, hostEnc, devWork, hostMap, printed, abortCause>>

\* DropView that keeps the BufferView alive across the unmap.
DropViewLeak ==
    /\ pc = "drop"
    /\ pc' = "unmap"
    /\ UNCHANGED <<x, hostInit, hostBufs, hostEnc, devWork, hostMap, hostOut, abortCause>>

\* drop(data)
DropView ==
    /\ pc = "drop"
    /\ view' = FALSE
    /\ pc' = "unmap"
    /\ UNCHANGED <<x, hostInit, hostBufs, hostEnc, devWork, mapState, mapMode, mapCount,
                   polled, hostOut, abortCause>>

\* y_buffer.unmap()
Unmap ==
    /\ pc = "unmap"
    /\ mapState' = "unmapped"
    /\ pc' = "Read"
    /\ UNCHANGED <<x, hostInit, hostBufs, hostEnc, devWork, mapMode, mapCount, polled,
                   view, hostOut, abortCause>>

\* The expected values and the three println!; &result[0..5] panics when
\* the result has fewer than 5 elements, before anything is written.
Report ==
    /\ pc = "Read"
    /\ IF Len(result) < ReportLen
         THEN /\ Panic("slice")
              /\ UNCHANGED printed
         ELSE /\ printed' = << SubSeq(result, 1, ReportLen),
                               [i \in 1 .. ReportLen |-> Cos(i - 1)],
                               Len(result) >>
              /\ pc' = "done"
              /\ UNCHANGED abortCause
    /\ UNCHANGED <<x, hostInit, hostBufs, hostEnc, devWork, hostMap, result, copied>>

Next ==
    \/ RequestAdapter
    \/ \E found \in BOOLEAN : AdapterResolved(found)
    \/ RequestDevice
    \/ \E ok \in BOOLEAN : DeviceResolved(ok)
    \/ CreateBuffers
    \/ BuildPipeline
    \/ EncodePass
    \/ Submit
    \/ \E gidx \in pending : ShaderMain(gidx)
    \/ MapAsync
    \/ \E granted \in BOOLEAN : Poll(granted)
    \/ AwaitMap
    \/ GetMappedRange
    \/ CopyOut
    \/ DropView
    \/ Unmap
    \/ Report

Spec == Init /\ [][Next]_vars

\* The run is driven to completion by block_on, and the device answers
\* every pending request and executes every submitted invocation.
FairSpec == Spec /\ WF_vars(Next)

(***************************************************************************)
(* The informal state machine of a run, as a function of the position.      *)
(***************************************************************************)
State ==
    CASE pc \in {"start", "await_adapter", "adapter_ok", "await_device"} -> "Uninitialized"
      [] pc = "DeviceReady" -> "DeviceReady"
      [] pc = "BuffersAllocated" -> "BuffersAllocated"
      [] pc = "PipelineBuilt" -> "PipelineBuilt"
      [] pc = "Dispatched" -> "Dispatched"
      [] pc \in {"Submitted", "poll", "await_map"} -> "Submitted"
      [] pc \in {"Completed", "copy", "drop", "unmap"} -> "Completed"
      [] pc \in {"Read", "done"} -> "Read"
      [] pc = "abort" -> "Abort"

StateOrder == <<"Uninitialized", "DeviceReady", "BuffersAllocated", "PipelineBuilt",
                "Dispatched", "Submitted", "Completed", "Read">>

Rank(s) == CHOOSE k \in 1 .. Len(StateOrder) : StateOrder[k] = s

\* The run has made its queue submission (and may have aborted since).
AfterSubmit ==
    \/ State \in {"Submitted", "Completed", "Read"}
    \/ abortCause \in {"map", "slice"}

\* The run has created its buffers (and may have aborted since).
AfterBuffers ==
    \/ State \in {"BuffersAllocated", "PipelineBuilt", "Dispatched"}
    \/ AfterSubmit

(***************************************************************************)
(* C1.  A run that reaches the readback yields a host result of exactly as  *)
(* many elements as the input: the output buffer holds one element per      *)
(* input element and the whole buffer is copied.                            *)
(***************************************************************************)
C1_OutputLength ==
    /\ AfterBuffers => Len(y_buffer) = Len(x) /\ ySize = SizeOfF32 * Len(x)
    /\ copied => Len(result) = Len(x)

C1_Witness == State = "Read" /\ Len(x) = MaxN /\ Len(result) = MaxN

(***************************************************************************)
(* C2.  Every element read back is the cosine of the input element at the   *)
(* same index; the dispatch yields exactly one invocation per index, every  *)
(* index is written exactly once and no index outside the input is          *)
(* touched.                                                                 *)
(***************************************************************************)
C2_Elementwise ==
    /\ oob = 0
    /\ AfterSubmit =>
         /\ pending \subseteq 0 .. Len(x) - 1
         /\ DOMAIN writes = 1 .. Len(x)
         /\ \A i \in 1 .. Len(x) : writes[i] = IF i - 1 \in pending THEN 0 ELSE 1
    /\ copied =>
         /\ DOMAIN result = 1 .. Len(x)
         /\ \A i \in 1 .. Len(x) : result[i] = Cos(x[i]) /\ writes[i] = 1

C2_Witness ==
    /\ copied
    /\ Len(x) >= 3
    /\ x[1] # x[2]
    /\ result[1] = Cos(x[1])
    /\ result[2] = Cos(x[2])

(***************************************************************************)
(* C3.  The host never reads the output buffer before the submitted work    *)
(* has finished: whenever the mapped view or the host copy exists, the      *)
(* single submission has completed, the blocking poll has returned, the     *)
(* mapping was granted, and the copy holds only elements the kernel wrote.  *)
(***************************************************************************)
C3_NoEarlyRead ==
    /\ view => mapState = "mapped"
    /\ (view \/ copied) =>
         /\ submissions = 1
         /\ pending = {}
         /\ polled
         /\ \A i \in DOMAIN y_buffer : writes[i] >= 1
    /\ copied => result = y_buffer

C3_Witness == pc = "drop" /\ copied /\ view /\ Len(x) >= 2

(***************************************************************************)
(* C4.  With an empty input the run does not crash: once the (empty)        *)
(* result has been read back, the run does not abort.                       *)
(***************************************************************************)
C4_EmptyInputNoCrash ==
    /\ (Len(x) = 0 /\ copied) => pc # "abort" /\ Len(result) = 0
    /\ (Len(x) = 0 /\ pc = "abort") => abortCause \in {"adapter", "device", "map"}

(***************************************************************************)
(* C5.  A missing adapter, a failed device creation and a failed mapping    *)
(* each end the run at once in an abort: the failed request is not made     *)
(* again, nothing runs after the abort, and an aborted run has printed      *)
(* nothing.                                                                 *)
(***************************************************************************)
C5_FailureIsTerminal ==
    /\ [](adapterFut = "none" => pc = "abort" /\ abortCause = "adapter")
    /\ [](deviceFut = "err" => pc = "abort" /\ abortCause = "device")
    /\ [](mapState = "failed" =>
            \/ pc = "await_map"
            \/ pc = "abort" /\ abortCause = "map")
    /\ [](pc = "abort" => printed = <<>> /\ abortCause # "none")
    /\ [][(pc # "abort")]_vars
    /\ [][(adapterFut \in {"some", "none"} => adapterFut' = adapterFut)]_vars
    /\ [][(deviceFut \in {"ok", "err"} => deviceFut' = deviceFut)]_vars
    /\ [][(mapState = "failed" => mapState' = "failed")]_vars
    /\ [][(mapState = "failed" /\ pc = "await_map" /\ pc' # pc) => pc' = "abort"]_vars

C5_Witness == pc = "abort" /\ abortCause = "map" /\ submissions = 1 /\ Len(x) >= 1

C7_Terminates == <>(pc \in {"done", "abort"})

C7_Witness == pc = "done" /\ polled /\ mapState = "unmapped" /\ Len(printed) = 3

(***************************************************************************)
(* C8 (as stated).  The wait for completion precedes the mapping request,   *)
(* which precedes the wait for the mapping to be granted.                   *)
(***************************************************************************)
C8_WaitBeforeMapRequest ==
    /\ mapCount > 0 => polled
    /\ pc = "await_map" => mapCount > 0

(***************************************************************************)
(* C8 (amended).  After the submission the run first requests the           *)
(* read-mapping, then blocks until the device has completed all submitted   *)
(* work, and only then awaits the mapping, which is resolved by that time.  *)
(***************************************************************************)
C8_MapRequestThenWait ==
    /\ mapCount > 0 => submissions = 1
    /\ pc = "poll" => mapCount = 1 /\ ~polled /\ mapState = "pending"
    /\ polled => mapCount = 1 /\ pending = {}
    /\ (State \in {"Completed", "Read"} \/ pc = "await_map"
          \/ abortCause \in {"map", "slice"}) => polled
    /\ mapState \in {"mapped", "failed"} => polled

C8_Witness == pc = "poll" /\ mapCount = 1 /\ ~polled /\ pending # {}

(***************************************************************************)
(* C9.  A run moves through Uninitialized, DeviceReady, BuffersAllocated,   *)
(* PipelineBuilt, Dispatched, Submitted, Completed, Read in that order:     *)
(* every change of state goes to the next state of the list or to abort,    *)
(* and Read and abort have no outgoing transition.                          *)
(***************************************************************************)
C9_StateOrder ==
    [][ \/ State' = State
        \/ /\ State \notin {"Read", "Abort"}
           /\ State' = "Abort"
        \/ /\ State \notin {"Read", "Abort"}
           /\ State' # "Abort"
           /\ Rank(State') = Rank(State) + 1 ]_vars

(***************************************************************************)
(* C10.  The output buffer is mapped at most once and only for reading;     *)
(* the host copy is taken while the mapping is held; the view is released   *)
(* before the buffer is unmapped; in the Read state the buffer is unmapped  *)
(* and no view is outstanding.                                              *)
(***************************************************************************)
C10_MappingDiscipline ==
    /\ [](mapCount <= 1 /\ mapMode \in {"none", "Read"})
    /\ [](mapState # "unmapped" => mapMode = "Read" /\ mapCount = 1)
    /\ [](view => mapState = "mapped")
    /\ [](State = "Read" => mapState = "unmapped" /\ ~view /\ copied)
    /\ [][(~copied /\ copied') => (mapState = "mapped" /\ view /\ mapState' = "mapped")]_vars
    /\ [][(mapState = "mapped" /\ mapState' # "mapped") => (~view /\ copied)]_vars
    /\ [][(mapState = "unmapped" /\ mapCount > 0) => mapState' = "unmapped"]_vars

C10_Witness == State = "Read" /\ mapCount = 1 /\ mapState = "unmapped" /\ Len(x) >= 1

====
